---------------------------- MODULE Spec2Model ----------------------------
(***************************************************************************)
(* The voice-changer client: the realtime streaming engine of              *)
(* client/core/src/lib.rs (StreamHandle, start_stream and its worker       *)
(* thread, the capture and playback callbacks, the websocket session) and  *)
(* the two host-shell commands of client/app/src-tauri/src/main.rs.        *)
(*                                                                         *)
(* One engine session is one call of start_stream: it owns a worker        *)
(* thread, a stop channel, the two bounded frame queues and a socket.      *)
(* Sessions are numbered 1, 2, ... in the order they are spawned; the      *)
(* variable sess holds the state of each.  The fields wire, gen, dropped,  *)
(* lost, rcvd, dequeued, malformed, zfrom, ndeq, skipped, stop_at,         *)
(* stop_pc, stop_returned, data and pushed (the last slice the capture     *)
(* callback was called with and the samples it appended for it) are        *)
(* history fields: they record what the program did                        *)
(* and are read by no action's guard; in_supported and out_supported keep  *)
(* what the devices answered.                                              *)
(***************************************************************************)
EXTENDS Integers, Sequences, FiniteSets, TLC

(***************************************************************************)
(* Bounds of the model.                                                    *)
(***************************************************************************)
MaxSessions == 2      \* engine sessions spawned in one behaviour
MaxCmds == 3          \* host-shell command invocations in one behaviour
MaxGen == 1           \* frames the capture path generates per session (Spec)
MaxGenFraming == 2    \* the same, in SpecFraming
MaxGenOverflow == 66  \* the same, in SpecOverflow
MaxStats == 1         \* statistics messages per session
MaxInbound == 66      \* binary messages the server sends (SpecPlayback)
MaxOther == 1         \* other messages the server sends (SpecPlayback)
MaxOdd == 1           \* leading binary messages of any size (SpecPlayback)
MaxPlayCalls == 2     \* playback callbacks (SpecPlayback)
MaxGenStop == 3       \* frames the capture path generates (SpecStop)
MaxGenMemory == 2     \* frames generated before the last capture callback (SpecMemory)
MaxGenDownmix == 2    \* the same, in SpecDownmix
MaxRanges == 2        \* configuration ranges a device lists (SpecSelect)
MaxStatsStop == 3     \* statistics messages (SpecStop)

(***************************************************************************)
(* Program constants.                                                      *)
(***************************************************************************)
QueueCap == 64        \* mpsc::channel::<Bytes>(64), both queues
I16Min == -32768
I16Max == 32767

Sessions == 1..MaxSessions
Cmds == 1..MaxCmds

(***************************************************************************)
(* Sequence helpers.                                                       *)
(***************************************************************************)
Range(f) == {f[i] : i \in DOMAIN f}

Min(a, b) == IF a <= b THEN a ELSE b

Drop(q, n) == SubSeq(q, n + 1, Len(q))

Take(q, n) == SubSeq(q, 1, n)

\* Rust's integer division truncates toward zero.
TruncDiv(a, b) == IF a >= 0 THEN a \div b ELSE -((-a) \div b)

Clamp(x, lo, hi) == IF x < lo THEN lo ELSE IF x > hi THEN hi ELSE x

RECURSIVE Sum(_)
Sum(q) == IF q = <<>> THEN 0 ELSE Head(q) + Sum(Tail(q))

RECURSIVE Flatten(_)
Flatten(qq) == IF qq = <<>> THEN <<>> ELSE Head(qq) \o Flatten(Tail(qq))

(***************************************************************************)
(* bytemuck::cast_slice between [i16] and [u8] on a little-endian host:    *)
(* each sample is two bytes, low byte first, two's complement.             *)
(***************************************************************************)
SampleToBytes(s) == LET u == s % 65536 IN <<u % 256, u \div 256>>

CastToBytes(samples) == Flatten([i \in 1..Len(samples) |-> SampleToBytes(samples[i])])

BytesToSample(lo, hi) == LET u == lo + 256 * hi IN IF u >= 32768 THEN u - 65536 ELSE u

\* Defined for an even number of bytes; cast_slice panics otherwise.
CastToSamples(bytes) ==
    [i \in 1..(Len(bytes) \div 2) |-> BytesToSample(bytes[2 * i - 1], bytes[2 * i])]

CastPanics(bytes) == Len(bytes) % 2 # 0


(***************************************************************************)
(* State.                                                                  *)
(*   handle   AppState.handle: 0 is None, s > 0 is Some(handle of s)       *)
(*   lock     the tokio Mutex around AppState: 0 is free, c > 0 is held    *)
(*            by command c                                                 *)
(*   cmd      the host shell's command invocations                         *)
(*   spawned  the number of sessions start_stream has spawned              *)
(*   sess     the engine sessions                                          *)
(***************************************************************************)
VARIABLES handle, lock, cmd, spawned, sess

vars == <<handle, lock, cmd, spawned, sess>>

\* AudioConfig values start_stream is called with.  main.rs passes
\* {48000, 1, 480}; the model draws frame_size and channels from small sets.
DefaultConfigs == {[sample_rate |-> 48000, channels |-> 1, frame_size |-> 2]}

FramingConfigs == [sample_rate : {48000}, channels : 1..3, frame_size : 1..2]

\* A session that has not been spawned.
NoSession ==
    [pc |-> "none", cfg |-> [sample_rate |-> 0, channels |-> 0, frame_size |-> 0],
     stop_sig |-> 0, in_channels |-> 0, out_channels |-> 0, out_format |-> "none",
     in_rate |-> 0, out_rate |-> 0, in_supported |-> <<>>, out_supported |-> <<>>,
     capturing |-> FALSE, playing |-> FALSE, sock |-> "none",
     reader |-> "none", rpend |-> <<>>,
     frame_q |-> <<>>, play_q |-> <<>>, input_accum |-> <<>>,
     total_frames |-> 0, total_bytes |-> 0, poisoned |-> FALSE, output |-> <<>>,
     wire |-> <<>>, gen |-> 0, dropped |-> {}, lost |-> {}, unsent |-> {},
     rcvd |-> <<>>, dequeued |-> <<>>, nstats |-> 0, nother |-> 0,
     ncalls |-> 0, zfrom |-> -1, ndeq |-> 0, skipped |-> 0, malformed |-> FALSE,
     data |-> <<>>, pushed |-> <<>>,
     exit |-> "", stop_at |-> -1, stop_pc |-> "none", stop_returned |-> FALSE]

NoCmd == [op |-> "none", pc |-> "new", res |-> "none", h |-> 0, at |-> "none"]

Init ==
    /\ handle = 0
    /\ lock = 0
    /\ cmd = [c \in Cmds |-> NoCmd]
    /\ spawned = 0
    /\ sess = [s \in Sessions |-> NoSession]

(***************************************************************************)
(* The worker thread leaves its closure: every local is dropped.  The      *)
(* device streams stop, the runtime and with it the reader task go, the    *)
(* socket halves go, the queues and the counters go.  What stays is the    *)
(* session's history; unsent records the frames the outbound queue held.   *)
(***************************************************************************)
WorkerExit(r, reason) ==
    [NoSession EXCEPT !.pc = "exited", !.exit = reason, !.cfg = r.cfg,
                      !.reader = IF r.reader = "running" THEN "aborted" ELSE r.reader,
                      !.sock = IF r.sock = "none" THEN "none" ELSE "dropped",
                      !.wire = r.wire, !.gen = r.gen, !.dropped = r.dropped,
                      !.lost = r.lost, !.rcvd = r.rcvd, !.dequeued = r.dequeued,
                      !.unsent = {r.frame_q[i].id : i \in DOMAIN r.frame_q},
                      !.stop_at = r.stop_at, !.stop_pc = r.stop_pc,
                      !.stop_returned = r.stop_returned]

Alive(s) == sess[s].pc \notin {"none", "exited"}

SetupFailed_AfterHandshake(r, reason) ==
    WorkerExit([r EXCEPT !.sock = "open", !.wire = Append(@, [kind |-> "init"])], reason)

\* A device setup step fails: the closure prints a message and returns (or
\* panics in expect), before connect_async is reached.
SetupFailed(r, reason) == WorkerExit(r, reason)

(***************************************************************************)
(* main.rs: the host shell's commands.                                     *)
(***************************************************************************)
\* The shell invokes a command; its handler first waits for the state lock
\* (state.lock().await).  Commands are numbered in the order they ask for it.
Invoke(c, op) ==
    /\ cmd[c].pc = "new"
    /\ IF c = 1 THEN TRUE ELSE cmd[c - 1].pc # "new"
    /\ cmd' = [cmd EXCEPT ![c] = [@ EXCEPT !.op = op, !.pc = "waiting"]]
    /\ UNCHANGED <<handle, lock, spawned, sess>>

\* The tokio Mutex is fair: it is granted in the order it was asked for,
\* so command c has it once it is free and every earlier command is done.
Granted(c) == lock = 0 /\ \A d \in 1..(c - 1) : cmd[d].pc = "done"

HandleHeld_NoCheck == FALSE

\* guard.handle.is_some()
HandleHeld == handle # 0

\* start_stream_cmd with a handle held: return Ok(()) at once.
StartHeld(c) ==
    /\ cmd[c].pc = "waiting" /\ cmd[c].op = "start"
    /\ Granted(c)
    /\ HandleHeld
    /\ cmd' = [cmd EXCEPT ![c] = [@ EXCEPT !.pc = "done", !.res = "Ok"]]
    /\ UNCHANGED <<handle, lock, spawned, sess>>

\* start_stream: a fresh stop channel and a fresh worker thread, which starts
\* at the top of its closure; Ok(StreamHandle) whatever the worker will do.
start_stream_SharedStop(cfg) ==
    [NoSession EXCEPT !.pc = "input_device", !.cfg = cfg,
                      !.stop_sig = IF spawned > 0 THEN 1 ELSE 0]

start_stream(cfg) ==
    [NoSession EXCEPT !.pc = "input_device", !.cfg = cfg]

\* start_stream_cmd with no handle held: start_stream, store the handle.
StartSpawn(c, configs) ==
    /\ cmd[c].pc = "waiting" /\ cmd[c].op = "start"
    /\ Granted(c)
    /\ ~HandleHeld
    /\ spawned < MaxSessions
    /\ \E cfg \in configs :
          sess' = [sess EXCEPT ![spawned + 1] = start_stream(cfg)]
    /\ spawned' = spawned + 1
    /\ handle' = spawned + 1
    /\ cmd' = [cmd EXCEPT ![c] = [@ EXCEPT !.pc = "done", !.res = "Ok",
                                            !.h = spawned + 1]]
    /\ UNCHANGED lock

\* stop_stream_cmd with no handle held: Ok(()).
StopNone(c) ==
    /\ cmd[c].pc = "waiting" /\ cmd[c].op = "stop"
    /\ Granted(c)
    /\ handle = 0
    /\ cmd' = [cmd EXCEPT ![c] = [@ EXCEPT !.pc = "done", !.res = "Ok"]]
    /\ UNCHANGED <<handle, lock, spawned, sess>>

\* stop_tx.send(()): queued while the worker still holds the receiver, an
\* ignored error once the worker has exited.
StopSend(r) ==
    IF r.pc = "exited" THEN r
    ELSE [r EXCEPT !.stop_sig = @ + 1, !.stop_at = Len(r.wire), !.stop_pc = r.pc]

\* stop_stream_cmd with a handle held: guard.handle.take(), then
\* StreamHandle::stop sends the stop signal and blocks in worker.join(),
\* the state lock still held.
StopTake(c) ==
    /\ cmd[c].pc = "waiting" /\ cmd[c].op = "stop"
    /\ Granted(c)
    /\ handle # 0
    /\ lock' = c
    /\ handle' = 0
    /\ cmd' = [cmd EXCEPT ![c] = [@ EXCEPT !.pc = "joining", !.h = handle, !.at = sess[handle].pc]]
    /\ sess' = [sess EXCEPT ![handle] = StopSend(@)]
    /\ UNCHANGED spawned

JoinReturns_NoWait(s) == TRUE

\* worker.join() returns once the worker thread has ended.
JoinReturns(s) == sess[s].pc = "exited"

\* StreamHandle::stop returns Ok(()), the command returns and drops the lock.
StopJoin(c) ==
    /\ cmd[c].pc = "joining"
    /\ JoinReturns(cmd[c].h)
    /\ lock' = 0
    /\ cmd' = [cmd EXCEPT ![c] = [@ EXCEPT !.pc = "done", !.res = "Ok"]]
    /\ sess' = [sess EXCEPT ![cmd[c].h] = [@ EXCEPT !.stop_returned = TRUE]]
    /\ UNCHANGED <<handle, spawned>>

(***************************************************************************)
(* lib.rs, device selection.  A supported configuration range is a record  *)
(* [channels, format, min, max]; a device answers [err, list]: an error,   *)
(* or the list of its ranges.                                              *)
(***************************************************************************)
Range16(ch, fmt) == [channels |-> ch, format |-> fmt, min |-> 44100, max |-> 48000]

\* What the input device may answer to supported_input_configs().
InputAnswers ==
    {[err |-> TRUE, list |-> <<>>]} \cup
    {[err |-> FALSE, list |-> l] : l \in
        {<<>>, <<Range16(1, "I16")>>, <<Range16(2, "I16")>>,
         <<Range16(2, "F32"), Range16(2, "I16"), Range16(1, "I16")>>}}

\* What the output device may answer to supported_output_configs().
OutputAnswers ==
    {[err |-> TRUE, list |-> <<>>]} \cup
    {[err |-> FALSE, list |-> l] : l \in
        {<<>>, <<Range16(1, "I16")>>, <<Range16(2, "F32")>>, <<Range16(2, "U16")>>}}

\* supported.iter().find(|c| c.channels() == ch && c.sample_format() == fmt):
\* the index of the first match, 0 for None.
Find(supported, ch, fmt) ==
    LET hits == {i \in DOMAIN supported :
                    supported[i].channels = ch /\ supported[i].format = fmt}
    IN IF hits = {} THEN 0 ELSE CHOOSE i \in hits : \A j \in hits : i <= j

\* The input ladder: desired_channels = [cfg.channels, 2], I16 only.
\* The index of the picked range, 0 for None.
PickInput(supported, cfg) ==
    LET a == Find(supported, cfg.channels, "I16")
        b == Find(supported, 2, "I16")
    IN IF a # 0 THEN a ELSE b

PickOutput_ChannelsFirst(supported, cfg) ==
    LET a == Find(supported, cfg.channels, "I16")
        b == Find(supported, cfg.channels, "F32")
        c == Find(supported, 2, "I16")
        d == Find(supported, 2, "F32")
    IN IF a # 0 THEN a
       ELSE IF b # 0 THEN b
       ELSE IF c # 0 THEN c
       ELSE IF d # 0 THEN d
       ELSE IF supported # <<>> THEN 1
       ELSE 0

\* The output ladder: formats [I16, F32] outside, channels [cfg.channels, 2]
\* inside, then the first supported range.  The index of the picked range,
\* 0 for none.
PickOutput(supported, cfg) ==
    LET a == Find(supported, cfg.channels, "I16")
        b == Find(supported, 2, "I16")
        c == Find(supported, cfg.channels, "F32")
        d == Find(supported, 2, "F32")
    IN IF a # 0 THEN a
       ELSE IF b # 0 THEN b
       ELSE IF c # 0 THEN c
       ELSE IF d # 0 THEN d
       ELSE IF supported # <<>> THEN 1
       ELSE 0

\* The rate taken from the picked range: the requested one when the range
\* holds it (with_sample_rate), else the range's maximum
\* (with_max_sample_rate).
SelectRate(range, cfg) ==
    IF range.min <= cfg.sample_rate /\ cfg.sample_rate <= range.max
    THEN cfg.sample_rate
    ELSE range.max

(***************************************************************************)
(* lib.rs, the worker thread from its start to the main loop.  Each step   *)
(* is one call into the host audio system or the network, whose outcome    *)
(* the environment decides.                                                *)
(***************************************************************************)
\* host.default_input_device()
W_InputDevice(s) ==
    /\ sess[s].pc = "input_device"
    /\ \E found \in BOOLEAN :
          sess' = [sess EXCEPT ![s] =
                     IF found THEN [@ EXCEPT !.pc = "output_device"]
                     ELSE SetupFailed(@, "no_input_device")]
    /\ UNCHANGED <<handle, lock, cmd, spawned>>

\* host.default_output_device()
W_OutputDevice(s) ==
    /\ sess[s].pc = "output_device"
    /\ \E found \in BOOLEAN :
          sess' = [sess EXCEPT ![s] =
                     IF found THEN [@ EXCEPT !.pc = "input_config"]
                     ELSE SetupFailed(@, "no_output_device")]
    /\ UNCHANGED <<handle, lock, cmd, spawned>>

\* supported_input_configs(), the input ladder and the rate, the device
\* answering one of answers.
InputConfigStep(s, answers) ==
    /\ sess[s].pc = "input_config"
    /\ \E ans \in answers :
          LET pick == PickInput(ans.list, sess[s].cfg) IN
          sess' = [sess EXCEPT ![s] =
                     IF ans.err THEN SetupFailed(@, "list_input_configs")
                     ELSE IF pick = 0 THEN SetupFailed(@, "no_input_config")
                     ELSE [@ EXCEPT !.pc = "output_config",
                                    !.in_supported = ans.list,
                                    !.in_channels = ans.list[pick].channels,
                                    !.in_rate = SelectRate(ans.list[pick], sess[s].cfg)]]
    /\ UNCHANGED <<handle, lock, cmd, spawned>>

W_InputConfig(s) == InputConfigStep(s, InputAnswers)

\* supported_output_configs(), the output ladder and the rate, the device
\* answering one of answers.
OutputConfigStep(s, answers) ==
    /\ sess[s].pc = "output_config"
    /\ \E ans \in answers :
          LET pick == PickOutput(ans.list, sess[s].cfg) IN
          sess' = [sess EXCEPT ![s] =
                     IF ans.err THEN SetupFailed(@, "list_output_configs")
                     ELSE IF pick = 0 THEN SetupFailed(@, "no_output_config")
                     ELSE [@ EXCEPT !.pc = "build_input",
                                    !.out_supported = ans.list,
                                    !.out_channels = ans.list[pick].channels,
                                    !.out_format = ans.list[pick].format,
                                    !.out_rate = SelectRate(ans.list[pick], sess[s].cfg)]]
    /\ UNCHANGED <<handle, lock, cmd, spawned>>

W_OutputConfig(s) == OutputConfigStep(s, OutputAnswers)

\* build_input_stream(..).expect(..): a failure panics the worker thread.
W_BuildInput(s) ==
    /\ sess[s].pc = "build_input"
    /\ \E built \in BOOLEAN :
          sess' = [sess EXCEPT ![s] =
                     IF built THEN [@ EXCEPT !.pc = "build_output"]
                     ELSE SetupFailed(@, "panic_build_input")]
    /\ UNCHANGED <<handle, lock, cmd, spawned>>

\* match output_sample_format: I16 and F32 build a stream (expect), any
\* other format returns.
W_BuildOutput(s) ==
    /\ sess[s].pc = "build_output"
    /\ \E built \in BOOLEAN :
          sess' = [sess EXCEPT ![s] =
                     IF @.out_format \notin {"I16", "F32"}
                     THEN SetupFailed(@, "unsupported_format")
                     ELSE IF built THEN [@ EXCEPT !.pc = "play_input"]
                     ELSE SetupFailed(@, "panic_build_output")]
    /\ UNCHANGED <<handle, lock, cmd, spawned>>

\* input_stream.play(): from here the capture callback runs.
W_PlayInput(s) ==
    /\ sess[s].pc = "play_input"
    /\ \E ok \in BOOLEAN :
          sess' = [sess EXCEPT ![s] =
                     IF ok THEN [@ EXCEPT !.pc = "play_output", !.capturing = TRUE]
                     ELSE SetupFailed(@, "play_input")]
    /\ UNCHANGED <<handle, lock, cmd, spawned>>

\* output_stream.play(): from here the playback callback runs.
W_PlayOutput(s) ==
    /\ sess[s].pc = "play_output"
    /\ \E ok \in BOOLEAN :
          sess' = [sess EXCEPT ![s] =
                     IF ok THEN [@ EXCEPT !.pc = "connect", !.playing = TRUE]
                     ELSE SetupFailed(@, "play_output")]
    /\ UNCHANGED <<handle, lock, cmd, spawned>>

\* connect_async(url)
W_Connect(s) ==
    /\ sess[s].pc = "connect"
    /\ \E ok \in BOOLEAN :
          sess' = [sess EXCEPT ![s] =
                     IF ok THEN [@ EXCEPT !.pc = "init", !.sock = "open"]
                     ELSE WorkerExit(@, "connect")]
    /\ UNCHANGED <<handle, lock, cmd, spawned>>

(***************************************************************************)
(* Messages and frames.  A frame in a queue is [id, payload]: payload is   *)
(* the Bytes, id is a history tag (the frame's number in the order the     *)
(* capture path generated it, or the reader received it).  A message on    *)
(* the wire is [kind, id, payload, frames, bytes].                         *)
(***************************************************************************)
Frame(id, payload) == [id |-> id, payload |-> payload]

InitMsg == [kind |-> "init", id |-> 0, payload |-> <<>>, frames |-> 0, bytes |-> 0]

BinaryMsg(f) == [kind |-> "binary", id |-> f.id, payload |-> f.payload, frames |-> 0, bytes |-> 0]

StatsMsg_SinceLastTick(r) ==
    [kind |-> "stats", id |-> 0, payload |-> <<>>,
     frames |-> IF r.pc = "stats" /\ r.nstats > 0 THEN 0 ELSE r.total_frames,
     bytes |-> IF r.pc = "stats" /\ r.nstats > 0 THEN 0 ELSE r.total_bytes]

\* json!({"type": "stats", .., "frames": total_frames, "bytes": total_bytes})
StatsMsg(r) ==
    [kind |-> "stats", id |-> 0, payload |-> <<>>,
     frames |-> r.total_frames, bytes |-> r.total_bytes]

\* A send on the socket succeeds while the client's end is open.
WriteOk(r) == r.sock = "open"

SendInit_Forgotten(w) == w

\* ws_writer.send(Message::Text(init json))
SendInit(w) == Append(w, InitMsg)

\* The handshake, then the reader task is spawned and the counters start.
W_Init(s) ==
    /\ sess[s].pc = "init"
    /\ sess' = [sess EXCEPT ![s] =
                  IF WriteOk(@)
                  THEN [@ EXCEPT !.pc = "loop", !.wire = SendInit(@),
                                 !.reader = "running",
                                 !.total_frames = 0, !.total_bytes = 0]
                  ELSE WorkerExit(@, "init_send")]
    /\ UNCHANGED <<handle, lock, cmd, spawned>>

StopSeen_Never(r) == FALSE

\* stop_rx.try_recv().is_ok()
StopSeen(r) == r.stop_sig > 0

\* The top of the main loop: break on the stop signal, then
\* reader_task.abort() and the end of the closure.
W_LoopTop(s) ==
    /\ sess[s].pc = "loop"
    /\ sess' = [sess EXCEPT ![s] =
                  IF StopSeen(@)
                  THEN WorkerExit([@ EXCEPT !.stop_sig = @ - 1], "stop")
                  ELSE [@ EXCEPT !.pc = "select"]]
    /\ UNCHANGED <<handle, lock, cmd, spawned>>

\* select!: frame_rx.recv() yields a frame; count it and send it as a binary
\* message.  A send error breaks the loop.
W_SelectRecv(s) ==
    /\ sess[s].pc = "select"
    /\ sess[s].frame_q # <<>>
    /\ LET f == Head(sess[s].frame_q) IN
       sess' = [sess EXCEPT ![s] =
                  LET r == [@ EXCEPT !.frame_q = Tail(@),
                                     !.total_frames = @ + 1,
                                     !.total_bytes = @ + Len(f.payload)]
                  IN IF WriteOk(r)
                     THEN [r EXCEPT !.pc = "stats", !.wire = Append(@, BinaryMsg(f))]
                     ELSE WorkerExit([r EXCEPT !.lost = @ \cup {f.id}], "write_error")]
    /\ UNCHANGED <<handle, lock, cmd, spawned>>

\* select!: no frame arrives within the 5 ms sleep.
W_SelectSleep(s) ==
    /\ sess[s].pc = "select"
    /\ sess[s].frame_q = <<>>
    /\ sess' = [sess EXCEPT ![s] = [@ EXCEPT !.pc = "stats"]]
    /\ UNCHANGED <<handle, lock, cmd, spawned>>

W_StatsSkip_NoStopCheck(s) ==
    /\ sess[s].pc = "stats"
    /\ sess' = [sess EXCEPT ![s] = [@ EXCEPT !.pc = "select"]]
    /\ UNCHANGED <<handle, lock, cmd, spawned>>

\* last_stats.elapsed() < 1 s: nothing to send, back to the top of the loop.
W_StatsSkip(s) ==
    /\ sess[s].pc = "stats"
    /\ sess' = [sess EXCEPT ![s] = [@ EXCEPT !.pc = "loop"]]
    /\ UNCHANGED <<handle, lock, cmd, spawned>>

\* last_stats.elapsed() >= 1 s: send the statistics message, its result
\* ignored.
W_StatsSend(s, maxStats) ==
    /\ sess[s].pc = "stats"
    /\ sess[s].nstats < maxStats
    /\ sess' = [sess EXCEPT ![s] =
                  [@ EXCEPT !.pc = "loop", !.nstats = @ + 1,
                            !.wire = IF WriteOk(sess[s])
                                     THEN Append(@, StatsMsg(sess[s])) ELSE @]]
    /\ UNCHANGED <<handle, lock, cmd, spawned>>

(***************************************************************************)
(* The socket's other end, and the reader task.  The reader runs on the    *)
(* worker's single-threaded runtime, so only while the main loop is at an  *)
(* await.                                                                  *)
(***************************************************************************)
\* The connection goes down (peer close, network failure): from now on
\* the client's sends fail and its reads end.
PeerClose(s) ==
    /\ sess[s].sock = "open"
    /\ sess' = [sess EXCEPT ![s] = [@ EXCEPT !.sock = "closed"]]
    /\ UNCHANGED <<handle, lock, cmd, spawned>>

ReaderRuns(r) == r.reader = "running" /\ r.pc \in {"select", "stats"}

SamplesPerFrame_NoChannels(cfg) == cfg.frame_size

\* samples_per_frame = frame_size * channels
SamplesPerFrame(cfg) == cfg.frame_size * cfg.channels

\* What the server may send as a binary message: a frame of the advertised
\* size (its samples all k), and payloads of other sizes.
StdPayload(cfg, k) == CastToBytes([i \in 1..SamplesPerFrame(cfg) |-> k])

OddPayloads(cfg, k) == {<<>>, <<k>>, StdPayload(cfg, k) \o <<k, 0>>}

Forward_TrySend(r, f) ==
    IF Len(r.play_q) < QueueCap THEN [r EXCEPT !.play_q = Append(@, f)] ELSE r

\* reader_play_tx.send(bytes).await: into the queue when it has room,
\* else the task waits holding the frame.
Forward(r, f) ==
    IF Len(r.play_q) < QueueCap
    THEN [r EXCEPT !.play_q = Append(@, f)]
    ELSE [r EXCEPT !.rpend = <<f>>]

\* ws_reader.next() yields Ok(Binary(data)): forward it to the playback
\* queue, waiting while the queue is full.  The first maxOdd messages may
\* have a payload of another size than the advertised one.
ReaderBinary(s, maxIn, maxOdd) ==
    /\ ReaderRuns(sess[s])
    /\ sess[s].rpend = <<>>
    /\ sess[s].sock = "open"
    /\ Len(sess[s].rcvd) < maxIn
    /\ LET k == Len(sess[s].rcvd) + 1 IN
       \E payload \in {StdPayload(sess[s].cfg, k)} \cup
                      (IF k <= maxOdd THEN OddPayloads(sess[s].cfg, k) ELSE {}) :
          sess' = [sess EXCEPT ![s] =
                     Forward([@ EXCEPT !.rcvd = Append(@, k),
                                       !.malformed = @ \/ payload # StdPayload(sess[s].cfg, k)],
                             Frame(k, payload))]
    /\ UNCHANGED <<handle, lock, cmd, spawned>>

\* The send that waited completes once the playback callback made room.
ReaderResume(s) ==
    /\ ReaderRuns(sess[s])
    /\ sess[s].rpend # <<>>
    /\ Len(sess[s].play_q) < QueueCap
    /\ sess' = [sess EXCEPT ![s] =
                  [@ EXCEPT !.play_q = Append(@, Head(sess[s].rpend)), !.rpend = <<>>]]
    /\ UNCHANGED <<handle, lock, cmd, spawned>>

ForwardOther_AsFrame(r) == [r EXCEPT !.play_q = Append(@, Frame(0, <<>>))]

\* Ok(_) => {}
ForwardOther(r) == r

\* ws_reader.next() yields Ok of a text, ping, pong or close message.
ReaderOther(s, maxOther) ==
    /\ ReaderRuns(sess[s])
    /\ sess[s].rpend = <<>>
    /\ sess[s].sock = "open"
    /\ sess[s].nother < maxOther
    /\ sess' = [sess EXCEPT ![s] = ForwardOther([@ EXCEPT !.nother = @ + 1])]
    /\ UNCHANGED <<handle, lock, cmd, spawned>>

\* ws_reader.next() yields None, or Err of the closed connection: the task
\* ends.
ReaderEnd(s) ==
    /\ ReaderRuns(sess[s])
    /\ sess[s].rpend = <<>>
    /\ sess[s].sock = "closed"
    /\ sess' = [sess EXCEPT ![s] = [@ EXCEPT !.reader = "ended"]]
    /\ UNCHANGED <<handle, lock, cmd, spawned>>

\* ws_reader.next() yields Err(e) for an inbound message the protocol
\* rejects, the connection still up: break, the task ends.
ReaderError(s) ==
    /\ ReaderRuns(sess[s])
    /\ sess[s].rpend = <<>>
    /\ sess[s].sock = "open"
    /\ sess' = [sess EXCEPT ![s] = [@ EXCEPT !.reader = "ended"]]
    /\ UNCHANGED <<handle, lock, cmd, spawned>>

(***************************************************************************)
(* lib.rs, the capture callback (input stream data callback).              *)
(***************************************************************************)
\* data.chunks(in_channels): the last chunk holds what is left.
Chunk(data, n, i) == SubSeq(data, (i - 1) * n + 1, Min(i * n, Len(data)))

NumChunks(data, n) == (Len(data) + n - 1) \div n

Average_Floor(frame, n) == Clamp(Sum(frame) \div n, I16Min, I16Max)

\* One down-mixed sample: the channel sum in i32, divided by in_channels
\* (Rust's integer division truncates toward zero), clamped to i16.  The
\* sum of at most 65535 (u16 channels) values of 16 bits fits in an i32.
Average(frame, n) == Clamp(TruncDiv(Sum(frame), n), I16Min, I16Max)

\* What the callback appends to input_accum for one slice.
Downmix(data, in_channels) ==
    IF in_channels = 1 THEN data
    ELSE [i \in 1..NumChunks(data, in_channels) |->
            Average(Chunk(data, in_channels, i), in_channels)]

TrySend_DropOldest(q, f) ==
    IF Len(q) < QueueCap THEN Append(q, f) ELSE Append(Tail(q), f)

\* frame_tx.try_send(frame), its result ignored: a full queue keeps its
\* contents and the frame is gone.
TrySend(q, f) == IF Len(q) < QueueCap THEN Append(q, f) ELSE q

Reframe_Once(r) ==
    LET n == SamplesPerFrame(r.cfg) IN
    IF Len(r.input_accum) < n THEN r
    ELSE [r EXCEPT !.input_accum = Drop(@, n),
                   !.frame_q = TrySend(@, Frame(r.gen + 1, CastToBytes(Take(r.input_accum, n)))),
                   !.gen = @ + 1,
                   !.dropped = IF Len(r.frame_q) >= QueueCap THEN @ \cup {r.gen + 1} ELSE @]

\* while input_accum.len() >= samples_per_frame: drain one frame's samples,
\* cast them to bytes, try_send.  r is the session.
RECURSIVE Reframe(_)
Reframe(r) ==
    LET n == SamplesPerFrame(r.cfg) IN
    IF Len(r.input_accum) < n THEN r
    ELSE LET chunk == Take(r.input_accum, n)
             f == Frame(r.gen + 1, CastToBytes(chunk))
         IN Reframe([r EXCEPT !.input_accum = Drop(@, n),
                              !.frame_q = TrySend(@, f),
                              !.gen = @ + 1,
                              !.dropped = IF Len(r.frame_q) >= QueueCap
                                          THEN @ \cup {r.gen + 1} ELSE @])

\* The host audio thread calls the callback with a slice of interleaved
\* samples.
Capture(s, slices, maxGen) ==
    /\ sess[s].capturing
    /\ sess[s].gen < maxGen
    /\ \E data \in slices :
          sess' = [sess EXCEPT ![s] =
                     Reframe([@ EXCEPT !.input_accum =
                                          @ \o Downmix(data, sess[s].in_channels),
                                       !.data = data,
                                       !.pushed = Downmix(data, sess[s].in_channels)])]
    /\ UNCHANGED <<handle, lock, cmd, spawned>>

(***************************************************************************)
(* lib.rs, the playback callback (output stream data callback).  A run of  *)
(* the callback is [idx, q, deq, out, panicked, zfrom, skipped]: the write *)
(* index, the queue, the ids dequeued, the buffer, whether cast_slice      *)
(* panicked, and two history fields: the index from which the empty-queue  *)
(* branch filled zeros (-1 if it did not run) and the number of samples of *)
(* dequeued frames that were not written to every channel.                 *)
(* An F32 sample v is held as the integer 32768 * v.                       *)
(***************************************************************************)
\* What the device left in the buffer it hands to the callback: a value no
\* frame sample has, so that a position the callback did not write shows.
Stale == 99

Silence_Keep(out, idx) == out

\* while idx < output.len() { output[idx] = 0; idx += 1; }
Silence(out, idx) == [i \in 1..Len(out) |-> IF i > idx THEN 0 ELSE out[i]]

\* One frame's samples written from idx on, each to every channel, until
\* the buffer is full.
WriteFrame(out, idx, samples, channels) ==
    [i \in 1..Len(out) |->
        IF i > idx /\ i <= idx + Len(samples) * channels
        THEN samples[((i - idx - 1) \div channels) + 1]
        ELSE out[i]]

\* while idx < output.len(): try_recv a frame and write it, or fill the
\* rest with zeros on an empty queue.
RECURSIVE PlayLoop(_, _)
PlayLoop(p, channels) ==
    IF p.idx >= Len(p.out) THEN p
    ELSE IF p.q = <<>>
         THEN [p EXCEPT !.idx = Len(p.out), !.zfrom = p.idx,
                        !.out = Silence(p.out, p.idx)]
    ELSE LET f == Head(p.q) IN
         IF CastPanics(f.payload)
         THEN [p EXCEPT !.q = Tail(@), !.deq = Append(@, f.id), !.panicked = TRUE]
         ELSE LET samples == CastToSamples(f.payload) IN
              PlayLoop([p EXCEPT !.q = Tail(@), !.deq = Append(@, f.id),
                                 !.idx = Min(Len(p.out), @ + Len(samples) * channels),
                                 !.out = WriteFrame(@, p.idx, samples, channels),
                                 !.skipped = @ + Len(samples)
                                               - Min(Len(samples),
                                                     (Len(p.out) - p.idx) \div channels)],
                       channels)

\* play_rx.try_lock() fails on a poisoned mutex (a callback panicked with
\* the guard held): the whole buffer is zeroed.
PlayCallback(r, old) ==
    IF r.poisoned
    THEN [idx |-> 0, q |-> r.play_q, deq |-> <<>>,
          out |-> [i \in 1..Len(old) |-> 0], panicked |-> FALSE,
          zfrom |-> -1, skipped |-> 0]
    ELSE PlayLoop([idx |-> 0, q |-> r.play_q, deq |-> <<>>, out |-> old,
                   panicked |-> FALSE, zfrom |-> -1, skipped |-> 0], r.out_channels)

\* The host audio thread calls the callback with the device's buffer, which
\* holds what the device left in it.
Playback(s, lens, maxCalls) ==
    /\ sess[s].playing
    /\ sess[s].ncalls < maxCalls
    /\ \E n \in lens :
          LET p == PlayCallback(sess[s], [i \in 1..n |-> Stale]) IN
          sess' = [sess EXCEPT ![s] =
                     [@ EXCEPT !.play_q = p.q,
                               !.dequeued = @ \o p.deq,
                               !.poisoned = @ \/ p.panicked,
                               !.output = p.out,
                               !.zfrom = p.zfrom, !.ndeq = Len(p.deq),
                               !.skipped = p.skipped,
                               !.ncalls = @ + 1]]
    /\ UNCHANGED <<handle, lock, cmd, spawned>>

(***************************************************************************)
(* The specifications.                                                     *)
(***************************************************************************)
HostStep ==
    \/ \E c \in Cmds, op \in {"start", "stop"} : Invoke(c, op)
    \/ \E c \in Cmds : StartHeld(c)
    \/ \E c \in Cmds : StartSpawn(c, DefaultConfigs)
    \/ \E c \in Cmds : StopNone(c)
    \/ \E c \in Cmds : StopTake(c)
    \/ \E c \in Cmds : StopJoin(c)

StartupStep(s) ==
    \/ W_InputDevice(s)
    \/ W_OutputDevice(s)
    \/ W_InputConfig(s)
    \/ W_OutputConfig(s)
    \/ W_BuildInput(s)
    \/ W_BuildOutput(s)
    \/ W_PlayInput(s)
    \/ W_PlayOutput(s)
    \/ W_Connect(s)
    \/ W_Init(s)

LoopStep(s) ==
    \/ W_LoopTop(s)
    \/ W_SelectRecv(s)
    \/ W_SelectSleep(s)
    \/ W_StatsSkip(s)

WorkerStep(s) ==
    \/ StartupStep(s)
    \/ LoopStep(s)
    \/ W_StatsSend(s, MaxStats)

\* The whole client: the shell's commands, the workers, the reader tasks,
\* the audio callbacks and the network.
Next ==
    \/ HostStep
    \/ \E s \in Sessions : WorkerStep(s)
    \/ \E s \in Sessions : PeerClose(s)
    \/ \E s \in Sessions : ReaderEnd(s)
    \/ \E s \in Sessions : ReaderError(s)
    \/ \E s \in Sessions : Capture(s, {<<5, -3>>}, MaxGen)

Spec == Init /\ [][Next]_vars

\* A session that start_stream_cmd spawned and whose worker has started both
\* device streams and is about to connect: the state of the program after
\* command 1 (a start) and the worker's device setup.
Started(cfg, in_ch, out_ch, out_fmt) ==
    [start_stream(cfg) EXCEPT !.pc = "connect", !.capturing = TRUE, !.playing = TRUE,
                              !.in_supported = <<Range16(in_ch, "I16")>>,
                              !.out_supported = <<Range16(out_ch, out_fmt)>>,
                              !.in_channels = in_ch, !.out_channels = out_ch,
                              !.out_format = out_fmt,
                              !.in_rate = SelectRate(Range16(in_ch, "I16"), cfg),
                              !.out_rate = SelectRate(Range16(out_ch, out_fmt), cfg)]

InitStarted(configs, out_chs) ==
    /\ handle = 1
    /\ lock = 0
    /\ cmd = [c \in Cmds |-> IF c = 1
                              THEN [NoCmd EXCEPT !.op = "start", !.pc = "done",
                                                 !.res = "Ok", !.h = 1]
                              ELSE NoCmd]
    /\ spawned = 1
    /\ \E cfg \in configs, in_ch \in 1..3, out_ch \in out_chs :
          /\ in_ch \in {cfg.channels, 2}
          /\ sess = [s \in Sessions |->
                       IF s = 1 THEN Started(cfg, in_ch, out_ch, "I16") ELSE NoSession]

SessionStep ==
    \/ W_Connect(1)
    \/ W_Init(1)
    \/ LoopStep(1)
    \/ PeerClose(1)

\* Capture overflow: one session, a capture path that may outrun the
\* network session by more than the queue holds.
OverflowSlices == {<<0>>, <<0, 0, 0>>}

InitOverflow == InitStarted(DefaultConfigs, {1})

NextOverflow ==
    \/ Invoke(2, "stop")
    \/ StopTake(2)
    \/ StopJoin(2)
    \/ SessionStep
    \/ Capture(1, OverflowSlices, MaxGenOverflow)

SpecOverflow == InitOverflow /\ [][NextOverflow]_vars

\* Framing: one session, every AudioConfig and input channel count of the
\* bounded sets, slices shorter and longer than a frame.
FramingSlices == {<<1>>, <<300, -2, 3>>, <<1, 2, 3, 4, 5, 6, 7>>}

InitFraming == InitStarted(FramingConfigs, {1})

NextFraming ==
    \/ SessionStep
    \/ Capture(1, FramingSlices, MaxGenFraming)

SpecFraming == InitFraming /\ [][NextFraming]_vars

\* Playback: one session, a server that may outrun the playback callback by
\* more than the queue holds, and an input device that delivers nothing, so
\* that the main loop only sleeps.
PlaybackLens == {2, 5}

InitPlayback == InitStarted(DefaultConfigs, {1, 2})

NextPlayback ==
    \/ W_Connect(1)
    \/ W_Init(1)
    \/ W_LoopTop(1)
    \/ W_SelectSleep(1)
    \/ W_StatsSkip(1)
    \/ PeerClose(1)
    \/ ReaderBinary(1, MaxInbound, MaxOdd)
    \/ ReaderResume(1)
    \/ ReaderOther(1, MaxOther)
    \/ ReaderEnd(1)
    \/ ReaderError(1)
    \/ Playback(1, PlaybackLens, MaxPlayCalls)

SpecPlayback == InitPlayback /\ [][NextPlayback]_vars

\* Memory: one session, an input device that hands over slices of three
\* samples or of more samples than both queues hold, a server that sends
\* more than the inbound queue holds, and an output device that never asks
\* for samples.
MemorySlices == {<<0, 0, 0>>, [i \in 1..(4 * QueueCap + 7) |-> 0]}

InitMemory == InitStarted(DefaultConfigs, {1})

NextMemory ==
    \/ SessionStep
    \/ ReaderBinary(1, MaxInbound, 0)
    \/ Capture(1, MemorySlices, MaxGenMemory)

SpecMemory == InitMemory /\ [][NextMemory]_vars

\* Down-mix: one session, every AudioConfig and input channel count of the
\* bounded sets.  The host hands the callback whole device frames: a slice
\* whose length is a multiple of the device's channel count.  The slices
\* hold a frame of opposite samples, frames whose sum is odd or negative,
\* and the extremes of the 16-bit range.
DownmixSlices ==
    {<<10000, -10000>>, <<10000, -10000, -3, 2>>, <<5, -5, -2>>,
     <<32767, 32767, 32767, -32768, -32768, -32768>>,
     <<1, 2, 4, -32768, -32768, -32767>>}

WholeFrames(s) == {d \in DownmixSlices : Len(d) % sess[s].in_channels = 0}

InitDownmix == InitStarted(FramingConfigs, {1})

\* The capture callback runs on the host's audio thread whatever the worker
\* does; here the worker is still connecting.
NextDownmix == Capture(1, WholeFrames(1), MaxGenDownmix)

SpecDownmix == InitDownmix /\ [][NextDownmix]_vars

\* Device selection: one worker that has found both devices, every
\* AudioConfig of a bounded set, and devices that list up to MaxRanges
\* ranges of any channel count, format and rate range of bounded sets.
SelectConfigs == [sample_rate : {22050, 48000}, channels : 1..3, frame_size : {2}]

SelectRanges ==
    [channels : 1..3, format : {"I16", "F32", "U16"}, min : {8000}, max : {16000}]
       \cup [channels : 1..3, format : {"I16", "F32", "U16"}, min : {44100}, max : {48000}]

SelectAnswers ==
    {[err |-> TRUE, list |-> <<>>]} \cup
    {[err |-> FALSE, list |-> l] :
        l \in UNION {[1..n -> SelectRanges] : n \in 0..MaxRanges}}

InitSelect ==
    /\ handle = 1
    /\ lock = 0
    /\ cmd = [c \in Cmds |-> IF c = 1
                              THEN [NoCmd EXCEPT !.op = "start", !.pc = "done",
                                                 !.res = "Ok", !.h = 1]
                              ELSE NoCmd]
    /\ spawned = 1
    /\ \E cfg \in SelectConfigs :
          sess = [s \in Sessions |->
                    IF s = 1 THEN [start_stream(cfg) EXCEPT !.pc = "input_config"]
                    ELSE NoSession]

NextSelect ==
    \/ InputConfigStep(1, SelectAnswers)
    \/ OutputConfigStep(1, SelectAnswers)
    \/ W_BuildInput(1)
    \/ W_BuildOutput(1)

SpecSelect == InitSelect /\ [][NextSelect]_vars

\* Stopping: one session, a capture path and a statistics clock that would
\* keep the main loop sending, and one stop command; the worker's steps are
\* taken whenever they can be.
InitStop == InitStarted(DefaultConfigs, {1})

NextStop ==
    \/ Invoke(2, "stop")
    \/ StopTake(2)
    \/ StopJoin(2)
    \/ SessionStep
    \/ W_StatsSend(1, MaxStatsStop)
    \/ Capture(1, {<<0, 0>>}, MaxGenStop)

SpecStop ==
    /\ InitStop /\ [][NextStop]_vars
    /\ WF_vars(W_Connect(1) \/ W_Init(1) \/ LoopStep(1))

\* A command's handler running: taking the state lock, or returning from
\* the join.
HandlerStep ==
    \E c \in Cmds : \/ StartHeld(c)
                    \/ StartSpawn(c, DefaultConfigs)
                    \/ StopNone(c)
                    \/ StopTake(c)
                    \/ StopJoin(c)

\* The whole client under the scheduling the code relies on: worker
\* threads that can take a step eventually take one (the main loop's select
\* always wakes within 5 ms), and a handler that can run eventually runs
\* (the tokio Mutex is fair, join returns once the thread has ended).
Fairness ==
    /\ WF_vars(\E s \in Sessions : WorkerStep(s))
    /\ WF_vars(HandlerStep)

FairSpec == Spec /\ Fairness

(***************************************************************************)
(* Properties.                                                             *)
(***************************************************************************)
Running(s) == sess[s].pc \in {"loop", "select", "stats"}

\* The session got as far as the main loop.
ReachedLoop(s) == Running(s) \/ sess[s].exit \in {"stop", "write_error"}

Kinds(w) == [i \in DOMAIN w |-> w[i].kind]

IsBinary(m) == m.kind = "binary"

\* The ids of the binary messages on a wire, in order.
WireIds(w) == LET b == SelectSeq(w, IsBinary) IN [i \in DOMAIN b |-> b[i].id]

QueueIds(q) == [i \in DOMAIN q |-> q[i].id]

\* Strictly increasing: each element is below its successor.
Increasing(q) == \A i \in 1..(Len(q) - 1) : q[i] < q[i + 1]

\* C1: in every session the first message on the wire is the handshake,
\* no later message is a handshake, so no binary or statistics message
\* precedes it, and a session that reached its main loop has sent it.
C1_HandshakeFirst ==
    \A s \in Sessions :
       LET w == sess[s].wire IN
       /\ w # <<>> => w[1].kind = "init"
       /\ \A i \in DOMAIN w : i > 1 => w[i].kind \in {"binary", "stats"}
       /\ ReachedLoop(s) => w # <<>>

\* A session whose wire holds the handshake, then a frame and statistics.
C1_Witness ==
    \E s \in Sessions :
       /\ Len(sess[s].wire) >= 3
       /\ "binary" \in Range(Kinds(sess[s].wire))
       /\ "stats" \in Range(Kinds(sess[s].wire))

\* C2: every binary message sent has a payload of exactly
\* frame_size * channels * 2 bytes, whatever the slices and the input
\* device's channel count.
C2_PayloadLength ==
    \A s \in Sessions : \A i \in DOMAIN sess[s].wire :
       sess[s].wire[i].kind = "binary" =>
          Len(sess[s].wire[i].payload) = sess[s].cfg.frame_size * sess[s].cfg.channels * 2

\* Two frames sent by a session whose device has another channel count
\* than the wire, with samples left over in the accumulation buffer.
C2_Witness ==
    /\ Len(WireIds(sess[1].wire)) >= 2
    /\ sess[1].in_channels # sess[1].cfg.channels
    /\ sess[1].input_accum # <<>>

\* The frames of session s that are in its outbound queue, or were when
\* the session ended.
Queued(s) ==
    IF sess[s].pc = "exited" THEN sess[s].unsent ELSE Range(QueueIds(sess[s].frame_q))

\* The frames generated and not on the wire.
Missing(s) == (1..sess[s].gen) \ Range(WireIds(sess[s].wire))

\* The frames on the wire are an order-preserving subsequence, without
\* duplicates, of the frames generated, and the queue keeps its order.
WireInOrder(s) ==
    LET ids == WireIds(sess[s].wire) IN
    /\ Increasing(ids)
    /\ \A i \in DOMAIN ids : 1 <= ids[i] /\ ids[i] <= sess[s].gen
    /\ Increasing(QueueIds(sess[s].frame_q))
    /\ Len(sess[s].frame_q) <= QueueCap

\* C3 as stated: the frames missing from the wire are exactly those
\* generated while the queue held 64 frames and those still queued.
C3_MissingAreDroppedOrQueued ==
    \A s \in Sessions : WireInOrder(s) /\ Missing(s) = sess[s].dropped \cup Queued(s)

\* C3, amended: the frames missing from the wire are exactly those
\* generated while the queue held 64 frames, those still queued, and the
\* one frame, if any, that was dequeued for a send that failed.
C3_MissingAreDroppedQueuedOrLost ==
    \A s \in Sessions :
       LET queued == Queued(s) IN
       /\ WireInOrder(s)
       /\ Missing(s) = sess[s].dropped \cup queued \cup sess[s].lost
       /\ Cardinality(sess[s].lost) <= 1
       /\ sess[s].lost # {} => sess[s].exit = "write_error"
       /\ sess[s].dropped \cap queued = {}
       /\ sess[s].lost \cap (sess[s].dropped \cup queued) = {}

\* A session that dropped frames on a full queue, sent some, lost one to a
\* failed send and ended with frames still queued.
C3_Witness ==
    /\ sess[1].dropped # {}
    /\ sess[1].lost # {}
    /\ sess[1].unsent # {}
    /\ WireIds(sess[1].wire) # <<>>

\* C4: while a session runs, the binary messages the reader received are,
\* in order, the frames the playback callback dequeued, then the frames in
\* the inbound queue, then the frame the reader waits to enqueue on a full
\* queue; the queue holds at most 64 frames.
C4_InboundFifo ==
    \A s \in Sessions :
       /\ Alive(s) =>
             sess[s].rcvd = sess[s].dequeued \o QueueIds(sess[s].play_q)
                               \o QueueIds(sess[s].rpend)
       /\ sess[s].rcvd = [i \in 1..Len(sess[s].rcvd) |-> i]
       /\ Len(sess[s].dequeued) <= Len(sess[s].rcvd)
       /\ sess[s].dequeued = Take(sess[s].rcvd, Len(sess[s].dequeued))
       /\ Len(sess[s].play_q) <= QueueCap

\* The reader waits on a full queue after the playback callback has
\* dequeued frames and a non-binary message has been discarded.
C4_Witness ==
    /\ sess[1].rpend # <<>>
    /\ sess[1].dequeued # <<>>
    /\ sess[1].nother > 0

\* C5: stop has returned only if the worker has exited, and once stop has
\* returned the session's wire never grows.
C5_StopWaitsForWorker ==
    /\ [](\A s \in Sessions : sess[s].stop_returned => sess[s].pc = "exited")
    /\ [][\A s \in Sessions : sess[s].stop_returned => sess'[s].wire = sess[s].wire]_vars

\* A stop has returned for a session that had sent a frame.
C5_Witness ==
    \E s \in Sessions : sess[s].stop_returned /\ WireIds(sess[s].wire) # <<>>

IsStop(c) == cmd[c].op = "stop"

IsStart(c) == cmd[c].op = "start"

\* C6: every stop command that was invoked returns Ok, whatever the worker
\* is doing, and a stop that finds no handle changes nothing.
C6_StopCompletes ==
    /\ \A c \in Cmds :
          (IsStop(c) /\ cmd[c].pc = "waiting") ~> (cmd[c].pc = "done" /\ cmd[c].res = "Ok")
    /\ [][\A c \in Cmds :
            (IsStop(c) /\ cmd[c].pc = "waiting" /\ cmd'[c].pc = "done")
               => (handle' = handle /\ sess' = sess /\ spawned' = spawned /\ handle = 0)]_vars

\* Stops have returned Ok: one sent while the worker was in its main loop,
\* and a later one that found no handle.
C6_Witness ==
    \E c, d \in Cmds :
       /\ IsStop(c) /\ cmd[c].pc = "done" /\ cmd[c].res = "Ok"
       /\ cmd[c].h # 0 /\ cmd[c].at \in {"loop", "select", "stats"}
       /\ IsStop(d) /\ cmd[d].pc = "done" /\ cmd[d].res = "Ok" /\ cmd[d].h = 0
       /\ d > c

AtMostOneWorker == Cardinality({s \in Sessions : Alive(s)}) <= 1

\* A start that finds a handle spawns nothing, keeps the handle, returns Ok.
StartHeldIsNoop ==
    \A c \in Cmds :
       (IsStart(c) /\ cmd[c].pc = "waiting" /\ cmd'[c].pc = "done" /\ handle # 0)
          => (handle' = handle /\ sess' = sess /\ spawned' = spawned /\ cmd'[c].res = "Ok")

\* C7 as stated: at most one worker is alive, and a stop command has
\* cleared the handle only after the worker it referred to was joined.
C7_HandleClearedAfterJoin ==
    /\ AtMostOneWorker
    /\ \A c \in Cmds : (IsStop(c) /\ cmd[c].h # 0) => sess[cmd[c].h].pc = "exited"

\* C7, amended: at most one worker is alive; a start that finds a handle is
\* a no-op; a stop command takes the handle at once and holds the state lock
\* until the worker is joined, so whenever the lock is free every live
\* worker is the one the handle refers to.
C7_OneWorker ==
    /\ [](AtMostOneWorker /\ (lock = 0 => \A s \in Sessions : Alive(s) => handle = s))
    /\ [](\A c \in Cmds : cmd[c].pc = "joining" <=> lock = c)
    /\ [][StartHeldIsNoop]_vars

\* A start has returned as a no-op, and a stop that has taken the handle
\* holds the lock and waits for the worker, which is still alive.
C7_Witness ==
    \E a, b \in Cmds :
       /\ IsStart(a) /\ cmd[a].pc = "done" /\ cmd[a].h = 0
       /\ IsStop(b) /\ cmd[b].pc = "joining" /\ Alive(cmd[b].h)
       /\ handle = 0 /\ lock = b

\* C8: a start that runs right after a stop spawns a fresh session, every
\* session is spawned at the top of the worker with an empty stop channel,
\* and a session sees a stop signal only from a stop command that took its
\* own handle.
C8_Restart ==
    /\ [](\A c, d \in Cmds :
            (IsStop(c) /\ cmd[c].pc = "done" /\ IsStart(d) /\ cmd[d].pc = "done"
               /\ d = c + 1)
            => (cmd[d].h # 0 /\ cmd[d].h > cmd[c].h /\ sess[cmd[d].h].pc # "none"))
    /\ [](\A s \in Sessions :
            (sess[s].stop_sig > 0 \/ sess[s].exit = "stop")
               => \E c \in Cmds : IsStop(c) /\ cmd[c].h = s)
    /\ [][\A s \in Sessions :
            (sess[s].pc = "none" /\ sess'[s].pc # "none")
               => (sess'[s].pc = "input_device" /\ sess'[s].stop_sig = 0)]_vars

\* After start, stop, start the second session is in its main loop, the
\* first one having exited on its stop signal.
C8_Witness ==
    /\ sess[1].exit = "stop"
    /\ Running(2)
    /\ handle = 2
    /\ WireIds(sess[2].wire) # <<>>

\* C9 as stated: once the reader has seen the end of the stream or an
\* error, the session sends nothing more.
C9_NoSendAfterReaderEnd ==
    [][\A s \in Sessions : sess[s].reader = "ended" => sess'[s].wire = sess[s].wire]_vars

\* C10 as stated: a start whose worker finds no default input device does
\* not return success.
C10_StartReportsNoInputDevice ==
    \A c \in Cmds :
       (IsStart(c) /\ cmd[c].pc = "done" /\ cmd[c].h # 0
          /\ sess[cmd[c].h].exit = "no_input_device")
       => cmd[c].res # "Ok"

\* The ways device setup ends the worker.
SetupFailures ==
    {"no_input_device", "no_output_device", "list_input_configs", "no_input_config",
     "list_output_configs", "no_output_config", "panic_build_input",
     "unsupported_format", "panic_build_output", "play_input", "play_output"}

\* C11: a worker that is still in device setup, or that device setup ended,
\* has opened no socket, spawned no reader and sent nothing.
C11_SetupFailureOpensNoSocket ==
    \A s \in Sessions :
       (sess[s].exit \in SetupFailures
          \/ sess[s].pc \in {"input_device", "output_device", "input_config",
                              "output_config", "build_input", "build_output",
                              "play_input", "play_output", "connect"})
       => (sess[s].sock = "none" /\ sess[s].wire = <<>> /\ sess[s].reader = "none")

\* One session ended by an output format that is neither I16 nor F32, a
\* later one by an output stream that failed to start.
C11_Witness ==
    /\ sess[1].exit = "unsupported_format"
    /\ sess[2].exit = "play_output"

\* The ids of the frames the last playback callback dequeued.
LastDequeued(s) ==
    LET d == sess[s].dequeued IN {d[i] : i \in (Len(d) - sess[s].ndeq + 1)..Len(d)}

\* C12: when the playback callback found the queue empty at index zfrom,
\* every position after zfrom is zero and every position up to it holds a
\* sample of a frame dequeued in this very callback (frame k's samples are
\* all k): nothing of an earlier frame, nothing the device left.
C12_UnderrunIsSilence ==
    \A s \in Sessions :
       sess[s].zfrom >= 0 =>
          \A i \in DOMAIN sess[s].output :
             IF i > sess[s].zfrom
             THEN sess[s].output[i] = 0
             ELSE sess[s].output[i] \in LastDequeued(s)

\* A second callback that played a frame and then ran out of frames in the
\* middle of its buffer, after an earlier callback had played others.
C12_Witness ==
    /\ sess[1].ncalls = 2
    /\ sess[1].zfrom > 0 /\ sess[1].zfrom < Len(sess[1].output)
    /\ sess[1].ndeq > 0 /\ Len(sess[1].dequeued) > sess[1].ndeq

\* C13 as stated: on an I16 device that received only frames of the
\* advertised size, no sample of a dequeued frame is skipped, whatever the
\* buffer length: every sample of every frame a callback dequeued was
\* written to all channels of a device frame.
C13_NoSampleSkipped ==
    \A s \in Sessions :
       (sess[s].out_format = "I16" /\ ~sess[s].malformed) => sess[s].skipped = 0

\* C14 as stated: every playback callback returns normally (cast_slice
\* never panics, the guard is never poisoned) and leaves no position of
\* the buffer unwritten.
C14_CallbackFillsBuffer ==
    \A s \in Sessions :
       /\ ~sess[s].poisoned
       /\ \A i \in DOMAIN sess[s].output : sess[s].output[i] # Stale

IsStats(m) == m.kind = "stats"

\* What session s sent after its stop signal was raised.
SentAfterStop(s) == SubSeq(sess[s].wire, sess[s].stop_at + 1, Len(sess[s].wire))

\* C15: after the stop signal is raised the session sends at most one more
\* binary frame and one more statistics message, and none at all when the
\* signal was raised before the main loop's select (then at most the
\* handshake follows); a worker that left on the stop signal has ended its
\* reader task; and a worker whose stop signal is raised exits.
C15_StopEndsWithinOneIteration ==
    /\ [](\A s \in Sessions :
            sess[s].stop_at >= 0 =>
               LET after == SentAfterStop(s)
                   nb == Len(SelectSeq(after, IsBinary))
                   ns == Len(SelectSeq(after, IsStats))
               IN /\ nb <= 1 /\ ns <= 1
                  /\ sess[s].stop_pc = "stats" => nb = 0
                  /\ sess[s].stop_pc \notin {"select", "stats"} =>
                        (nb = 0 /\ ns = 0 /\ Len(after) <= 1)
                  /\ sess[s].exit = "stop" => sess[s].reader \in {"aborted", "ended"})
    /\ \A s \in Sessions : (sess[s].stop_at >= 0) ~> (sess[s].pc = "exited")

\* The stop signal was raised while the main loop waited in select, with
\* frames queued: one frame and one statistics message followed, more
\* frames stayed queued, and the worker left on the signal.
C15_Witness ==
    /\ sess[1].exit = "stop" /\ sess[1].stop_pc = "select"
    /\ Len(SentAfterStop(1)) = 2
    /\ sess[1].unsent # {}

\* The binary messages among the first n messages of a wire.
BinaryBefore(w, n) == SelectSeq(SubSeq(w, 1, n), IsBinary)

\* C16: every statistics message on the wire carries the number of binary
\* messages sent before it in the session and the sum of their payload
\* lengths, which is frames * frame_size * channels * 2; and while the
\* session runs its counters never decrease.
C16_StatsCountSentFrames ==
    /\ [](\A s \in Sessions : \A i \in DOMAIN sess[s].wire :
            IsStats(sess[s].wire[i]) =>
               LET sent == BinaryBefore(sess[s].wire, i - 1) IN
               /\ sess[s].wire[i].frames = Len(sent)
               /\ sess[s].wire[i].bytes = Sum([j \in DOMAIN sent |-> Len(sent[j].payload)])
               /\ sess[s].wire[i].bytes
                     = Len(sent) * sess[s].cfg.frame_size * sess[s].cfg.channels * 2)
    /\ [][\A s \in Sessions :
            (Running(s) /\ sess'[s].pc # "exited")
               => (sess'[s].total_frames >= sess[s].total_frames
                     /\ sess'[s].total_bytes >= sess[s].total_bytes)]_vars

\* Two statistics messages of one session, the later one counting two
\* frames, the earlier one fewer.
C16_Witness ==
    \E i, j \in DOMAIN sess[1].wire :
       /\ i < j
       /\ IsStats(sess[1].wire[i]) /\ IsStats(sess[1].wire[j])
       /\ sess[1].wire[i].frames < 2 /\ sess[1].wire[j].frames = 2

\* C17: each queue holds at most 64 frames (the reader holding at most one
\* more while it waits), and between capture callbacks the accumulation
\* buffer holds fewer samples than one frame.
C17_MemoryBounded ==
    \A s \in Sessions :
       /\ Len(sess[s].frame_q) <= QueueCap
       /\ Len(sess[s].play_q) <= QueueCap
       /\ Len(sess[s].rpend) <= 1
       /\ sess[s].pc # "none" => Len(sess[s].input_accum) < SamplesPerFrame(sess[s].cfg)

\* Both queues are full, the capture callback has dropped frames, the
\* reader waits with a frame in hand, and samples are left over in the
\* accumulation buffer.
C17_Witness ==
    /\ Len(sess[1].frame_q) = QueueCap /\ sess[1].dropped # {}
    /\ Len(sess[1].play_q) = QueueCap /\ sess[1].rpend # <<>>
    /\ sess[1].input_accum # <<>>

\* The device lists a range of ch channels and format fmt.
Has(supported, ch, fmt) ==
    \E i \in DOMAIN supported :
       supported[i].channels = ch /\ supported[i].format = fmt

\* C18: the output configuration chosen is the one of the highest rung the
\* device supports: (1) cfg.channels I16, (2) 2 channels I16, (3)
\* cfg.channels F32, (4) 2 channels F32, (5) the first range listed; and
\* the output stream is built for the chosen format, or not at all when
\* that format is neither I16 nor F32.
C18_OutputLadder ==
    /\ [](\A s \in Sessions :
            sess[s].out_supported # <<>> =>
               LET l == sess[s].out_supported
                   c == sess[s].cfg.channels
                   chosen == <<sess[s].out_channels, sess[s].out_format>>
               IN IF Has(l, c, "I16") THEN chosen = <<c, "I16">>
                  ELSE IF Has(l, 2, "I16") THEN chosen = <<2, "I16">>
                  ELSE IF Has(l, c, "F32") THEN chosen = <<c, "F32">>
                  ELSE IF Has(l, 2, "F32") THEN chosen = <<2, "F32">>
                  ELSE chosen = <<l[1].channels, l[1].format>>)
    /\ [][\A s \in Sessions :
            (sess[s].pc = "build_output" /\ sess'[s].pc # "build_output")
               => IF sess[s].out_format \in {"I16", "F32"}
                  THEN \/ sess'[s].exit = "panic_build_output"
                       \/ /\ sess'[s].pc = "play_input"
                          /\ sess'[s].out_format = sess[s].out_format
                  ELSE sess'[s].exit = "unsupported_format"]_vars

\* The device lists a range of an unsupported format first and a stereo
\* F32 range second; mono was asked for, rung 4 was chosen, and the input
\* stream is built.
C18_Witness ==
    /\ sess[1].pc = "build_output"
    /\ Len(sess[1].out_supported) = 2
    /\ sess[1].out_supported[1].format = "U16"
    /\ sess[1].cfg.channels = 1
    /\ sess[1].out_channels = 2 /\ sess[1].out_format = "F32"

\* The device supports rate for ch channels and format fmt.
Supports(supported, ch, fmt, rate) ==
    \E i \in DOMAIN supported :
       /\ supported[i].channels = ch /\ supported[i].format = fmt
       /\ supported[i].min <= rate /\ rate <= supported[i].max

\* The device's maximum rate for ch channels and format fmt.
MaxRate(supported, ch, fmt) ==
    LET m == {supported[i].max : i \in {j \in DOMAIN supported :
                 supported[j].channels = ch /\ supported[j].format = fmt}}
    IN CHOOSE x \in m : \A y \in m : y <= x

\* The rate C19 asks for.
WantedRate(supported, ch, fmt, cfg) ==
    IF Supports(supported, ch, fmt, cfg.sample_rate)
    THEN cfg.sample_rate
    ELSE MaxRate(supported, ch, fmt)

\* C19 as stated: the rate selected for either device is the configured
\* rate whenever the device supports it for the chosen channel count and
\* format, and else the device's maximum for them.
C19_RateIsRequestedOrDeviceMax ==
    \A s \in Sessions :
       /\ sess[s].in_supported # <<>> =>
             sess[s].in_rate = WantedRate(sess[s].in_supported, sess[s].in_channels,
                                          "I16", sess[s].cfg)
       /\ sess[s].out_supported # <<>> =>
             sess[s].out_rate = WantedRate(sess[s].out_supported, sess[s].out_channels,
                                           sess[s].out_format, sess[s].cfg)


(***************************************************************************)
(* The down-mix of the capture callback.                                   *)
(***************************************************************************)
\* The i-th device frame of a slice of whole frames of n channels.
DeviceFrame(data, n, i) == SubSeq(data, (i - 1) * n + 1, i * n)

\* m is the quotient of the integer division of sum by n that truncates
\* toward zero: the remainder is smaller than n and has the sign of sum.
IsTruncatedMean(m, sum, n) ==
    LET rem == sum - n * m IN
    /\ -n < rem /\ rem < n
    /\ rem > 0 => sum > 0
    /\ rem < 0 => sum < 0

\* The samples the callback appended for its last slice, on a device of
\* several channels: one for each device frame, the frame's integer mean,
\* which is within 1 of the exact mean and in the 16-bit range; 0 for a
\* stereo frame of opposite samples.
MeanOfEachFrame ==
    \A s \in Sessions :
       LET r == sess[s]
           n == r.in_channels
       IN (n > 1 /\ r.data # <<>>) =>
             /\ Len(r.pushed) * n = Len(r.data)
             /\ \A i \in DOMAIN r.pushed :
                   LET sum == Sum(DeviceFrame(r.data, n, i)) IN
                   /\ IsTruncatedMean(r.pushed[i], sum, n)
                   /\ n * r.pushed[i] - sum <= n /\ sum - n * r.pushed[i] <= n
                   /\ I16Min <= r.pushed[i] /\ r.pushed[i] <= I16Max
                   /\ (n = 2 /\ r.data[2 * i - 1] = -r.data[2 * i]) => r.pushed[i] = 0

\* This step is a run of session s's capture callback.
CaptureRan(s) ==
    /\ sess'[s].data # <<>>
    /\ \/ sess'[s].gen # sess[s].gen
       \/ sess'[s].input_accum # sess[s].input_accum

\* A run of the capture callback that finds the accumulation buffer empty
\* and is handed k stereo device frames produces exactly one outbound
\* frame, which holds the k means, and leaves the buffer empty.
StereoFramesMakeOneFrame(s, k) ==
    (/\ CaptureRan(s)
     /\ sess[s].in_channels = 2
     /\ sess[s].input_accum = <<>>
     /\ Len(sess'[s].data) = 2 * k)
    => /\ sess'[s].gen = sess[s].gen + 1
       /\ sess'[s].input_accum = <<>>
       /\ sess'[s].frame_q =
             Append(sess[s].frame_q,
                    Frame(sess'[s].gen, CastToBytes(sess'[s].pushed)))

=============================================================================
